---- MODULE Spec2Model ----
(***************************************************************************)
(* A model of libearley: the grammar index (RuleSet), the reserved-        *)
(* capacity array (BigArray), the segmented span list (SpanList), the      *)
(* Earley recognizer (earley::parse) and full-parse detection              *)
(* (earley::find_full_parse).                                              *)
(*                                                                         *)
(* Indices are kept as in the C++ code: rule_idx, start_pos, curr_pos and  *)
(* the offsets in start_points count from 0; TLA+ sequences count from 1,  *)
(* so rules[rule_idx + 1] is the code's rules[rule_idx].                   *)
(***************************************************************************)
EXTENDS Integers, Sequences, FiniteSets, TLC

(***************************************************************************)
(* Bounds of the model.                                                    *)
(***************************************************************************)
\* Longest input handed to parse.
MaxInputLen == 2
\* The large item_capacity handed to parse (the small one is 1).
AmpleCapacity == 20
\* The number of subcomponents after which a traversal counts as runaway.
MaxTraversalSteps == 24
\* The item_capacity handed to parse in the arithmetic example.
ArithCapacity == 150
\* The number of elements after which test_big_array appends no more.
MaxPushes == 5
\* The number of BigArray objects a program holds.
MaxArrays == 2

(***************************************************************************)
(* The symbol type: the caller-supplied part of the library's contract.    *)
(***************************************************************************)
Terminals == {"Plus", "Minus", "Mult", "Div", "LParen", "RParen", "Digit"}
Nonterminals == {"A", "B", "C", "Number", "Sum", "Product", "Factor"}
Symbols == Terminals \cup Nonterminals
Digits == {"0", "1", "2", "3", "4", "5", "6", "7", "8", "9"}
Tokens == {"1", "+"}

is_terminal(s) == s \in Terminals

matches_terminal(terminal, tok) ==
    CASE terminal = "Plus" -> tok = "+"
      [] terminal = "Minus" -> tok = "-"
      [] terminal = "Mult" -> tok = "*"
      [] terminal = "Div" -> tok = "/"
      [] terminal = "LParen" -> tok = "("
      [] terminal = "RParen" -> tok = ")"
      [] terminal = "Digit" -> tok \in Digits
      [] OTHER -> FALSE

(***************************************************************************)
(* Grammars.  A grammar is a sub-sequence of RulePool, so the rules of one *)
(* left-hand side are always adjacent (the precondition of RuleSet).  The  *)
(* pool holds epsilon rules, unit rules, a unit cycle (A -> B, B -> A),    *)
(* left recursion (A -> A Plus), a rule with two nonterminals (A -> B C)   *)
(* and a nonterminal that follows a terminal (B -> Digit A).               *)
(***************************************************************************)
Rule(symbol, components) == [symbol |-> symbol, components |-> components]

RulePool ==
    << Rule("A", << >>),
       Rule("A", <<"B", "C">>),
       Rule("A", <<"A", "Plus">>),
       Rule("A", <<"B">>),
       Rule("B", << >>),
       Rule("B", <<"Digit">>),
       Rule("B", <<"Digit", "A">>),
       Rule("B", <<"A">>),
       Rule("C", << >>),
       Rule("C", <<"Digit">>) >>

RECURSIVE PickRules(_, _)
PickRules(mask, k) ==
    IF k > Len(RulePool) THEN << >>
    ELSE (IF k \in mask THEN <<RulePool[k]>> ELSE << >>) \o PickRules(mask, k + 1)

Grammars == { PickRules(mask, 1) : mask \in SUBSET (1..Len(RulePool)) }
StartSymbols == {"A", "B"}
Inputs == UNION { [1..n -> Tokens] : n \in 0..MaxInputLen }
Capacities == {1, AmpleCapacity}

VARIABLES
    rules,              \* RuleSet::rules, the grammar
    start_symbol,       \* parse's start_symbol
    input,              \* parse's input
    max_item_capacity,  \* parse's max_item_capacity
    rule_spans,         \* RuleSet::rule_spans
    nullable,           \* RuleSet::nullable
    m_byte_capacity,    \* BigArrayBase::m_byte_capacity of state_sets.items
    items,              \* SpanList::items (the BigArray's live elements)
    start_points,       \* SpanList::start_points
    next_state_set,     \* parse's staged scans
    curr_pos,           \* parse's curr_pos
    curr_token,         \* parse's curr_token, as an offset into input
    walk,               \* the iterator of `for(auto item : state_set)`, an offset into items
    scanned,            \* history: for each flushed segment, how many items the flush put in it
    full_parse,         \* find_full_parse's result
    input_size,         \* find_full_parse's input.size()
    oob,                \* find_full_parse read start_points out of bounds
    tree,               \* what print_parse_tree reported, and how it ended
    big_array,          \* the BigArray of test_big_array, with the history of its appends
    arrays,             \* the BigArrayBase objects of a program: m_data, m_byte_capacity
    mappings,           \* the mmap reservations made so far, with their munmap history
    pc

vars == << rules, start_symbol, input, max_item_capacity, rule_spans, nullable,
           m_byte_capacity, items, start_points, next_state_set, curr_pos,
           curr_token, walk, scanned, full_parse, input_size, oob, tree,
           big_array, arrays, mappings, pc >>

(***************************************************************************)
(* RuleSet::RuleSet                                                        *)
(***************************************************************************)
RECURSIVE FindIfNot(_, _, _)
FindIfNot(rs, k, symbol) ==
    IF k >= Len(rs) THEN Len(rs)
    ELSE IF rs[k + 1].symbol # symbol THEN k
    ELSE FindIfNot(rs, k + 1, symbol)

EmptyRange == [first |-> 0, last |-> 0]

RECURSIVE BuildRuleSpans(_, _, _)
BuildRuleSpans(rs, progress, spans) ==
    IF progress = Len(rs) THEN spans
    ELSE LET symbol == rs[progress + 1].symbol
             limit == FindIfNot(rs, progress + 1, symbol)
         IN  BuildRuleSpans(rs, limit,
                 [spans EXCEPT ![symbol] = [first |-> progress, last |-> limit]])

\* A faulty variant of AllNullable (sensitivity test):
\* std::ranges::any_of in place of all_of
AllNullable_AnyOf(components, nl) ==
    \E k \in 1..Len(components) : nl[components[k]]

AllNullable(components, nl) ==
    \A k \in 1..Len(components) : nl[components[k]]

RECURSIVE NullablePass(_, _, _)
NullablePass(rs, k, nl) ==
    IF k > Len(rs) THEN nl
    ELSE LET rule == rs[k]
         IN  NullablePass(rs, k + 1,
                 IF ~nl[rule.symbol] /\ AllNullable(rule.components, nl)
                 THEN [nl EXCEPT ![rule.symbol] = TRUE]
                 ELSE nl)

RECURSIVE MarkNullable(_, _)
MarkNullable(rs, nl) ==
    LET after == NullablePass(rs, 1, nl)
    IN  IF after = nl THEN nl ELSE MarkNullable(rs, after)

\* RuleSet::operator[]: the rule indices first..last-1
RuleRange(sym) == rule_spans[sym].first .. (rule_spans[sym].last - 1)

\* A faulty variant of is_nullable (sensitivity test):
\* a terminal counts as nullable
is_nullable_TerminalsToo(sym) == nullable[sym] \/ is_terminal(sym)

is_nullable(sym) == nullable[sym]

(***************************************************************************)
(* EarleyItem and its helpers                                              *)
(***************************************************************************)
EarleyItem(rule_idx, start_pos, progress) ==
    [rule_idx |-> rule_idx, progress |-> progress, start_pos |-> start_pos]

is_completed(item, rule_comp_count) == item.progress = rule_comp_count

next_symbol(rule, item) == rule.components[item.progress + 1]

item_exists(state_set, item) == \E k \in 1..Len(state_set) : state_set[k] = item

(***************************************************************************)
(* BigArray                                                                *)
(***************************************************************************)
ItemSize == 8
PageSize == 4096

ByteCapacity(capacity, element_size) ==
    LET bytes == capacity * element_size
    IN  bytes + (bytes % PageSize)

\* check_has_space does not throw
HasSpace(its, cap, count) == ~(Len(its) * ItemSize + ItemSize * count > cap)

\* A BigArray<T> value: the constructor's arguments, m_byte_capacity, m_end
\* as a byte offset from m_data, the elements constructed in the reservation
\* (memory[k] is the element at m_data + (k - 1) * element_size), and the
\* history of the values appended.
\* The objects of a program: each is not yet constructed, alive, or destroyed;
\* m_data is the number of the reservation it points at, 0 for nullptr.
ArrayIds == 1..MaxArrays
nullptr == 0
Unborn == [state |-> "unborn", m_data |-> nullptr, m_byte_capacity |-> 0]
NoArrays == [a \in ArrayIds |-> Unborn]

NoBigArray ==
    [capacity |-> 0, element_size |-> 0, m_byte_capacity |-> 0, m_end |-> 0,
     memory |-> << >>, pushed |-> << >>]

BigArray(capacity, element_size) ==
    [capacity |-> capacity, element_size |-> element_size,
     m_byte_capacity |-> ByteCapacity(capacity, element_size), m_end |-> 0,
     memory |-> << >>, pushed |-> << >>]

\* check_has_space does not throw
check_has_space(ba, element_size, count) ==
    ~(ba.m_end + element_size * count > ba.m_byte_capacity)

\* new (m_end) T{element}; m_end += sizeof(T)
PlaceAtEnd(ba, element) ==
    LET slot == (ba.m_end \div ba.element_size) + 1
    IN  [ba EXCEPT !.memory = [k \in 1..slot |-> IF k = slot THEN element ELSE @[k]],
                   !.m_end = @ + ba.element_size,
                   !.pushed = Append(@, element)]

\* A faulty variant of push_back (sensitivity test):
\* m_end is not moved, so the next element lands on this one
push_back_EndNotMoved(ba, element) ==
    LET slot == (ba.m_end \div ba.element_size) + 1
    IN  [ba EXCEPT !.memory = [k \in 1..slot |-> IF k = slot THEN element ELSE @[k]],
                   !.pushed = Append(@, element)]

push_back(ba, element) == PlaceAtEnd(ba, element)

BigArray_emplace_back(ba, element) == PlaceAtEnd(ba, element)

RECURSIVE BigArray_append(_, _)
BigArray_append(ba, range) ==
    IF range = << >> THEN ba
    ELSE BigArray_append(PlaceAtEnd(ba, Head(range)), Tail(range))

BigArray_size(ba) == ba.m_end \div ba.element_size

BigArray_at(ba, index) == ba.memory[index + 1]

\* begin() .. end(): the elements an iteration yields, in order
BigArray_range(ba) == [k \in 1..BigArray_size(ba) |-> ba.memory[k]]

(***************************************************************************)
(* SpanList.  A span list value is [items, start_points, thrown]; thrown   *)
(* records that BigArray threw "BigArray is out of memory" and the         *)
(* exception is propagating.                                               *)
(***************************************************************************)
SpanListOf(its, sp) == [items |-> its, start_points |-> sp, thrown |-> FALSE]

\* A faulty variant of add_span (sensitivity test):
\* after the first segment no further segment is opened
add_span_KeepOpen(sl) ==
    IF sl.start_points = << >>
    THEN [sl EXCEPT !.start_points = <<0, 0>>]
    ELSE sl

add_span(sl) ==
    IF sl.start_points = << >>
    THEN [sl EXCEPT !.start_points = <<0, 0>>]
    ELSE [sl EXCEPT !.start_points = Append(@, @[Len(@)])]

\* A faulty variant of emplace_back (sensitivity test):
\* the new item is stored at the front of the buffer and the others move up
emplace_back_AtFront(sl, cap, item) ==
    IF sl.thrown THEN sl
    ELSE IF ~HasSpace(sl.items, cap, 1) THEN [sl EXCEPT !.thrown = TRUE]
    ELSE [sl EXCEPT !.items = <<item>> \o @,
                    !.start_points[Len(sl.start_points)] = @ + 1]

emplace_back(sl, cap, item) ==
    IF sl.thrown THEN sl
    ELSE IF ~HasSpace(sl.items, cap, 1) THEN [sl EXCEPT !.thrown = TRUE]
    ELSE [sl EXCEPT !.items = Append(@, item),
                    !.start_points[Len(sl.start_points)] = @ + 1]

append(sl, cap, staged) ==
    LET bumped == [sl EXCEPT !.start_points[Len(sl.start_points)] = @ + Len(staged)]
    IN  IF ~HasSpace(sl.items, cap, Len(staged))
        THEN [bumped EXCEPT !.thrown = TRUE]
        ELSE [bumped EXCEPT !.items = @ \o staged]

\* SpanList::operator[]
SpanAt(its, sp, index) == SubSeq(its, sp[index + 1] + 1, sp[index + 2])

\* SpanList::curr_span: from the open segment's start to the live end of items
curr_span(sl) ==
    SubSeq(sl.items, sl.start_points[Len(sl.start_points) - 1] + 1, Len(sl.items))

\* number of segments: end() - begin()
NumSegments == IF start_points = << >> THEN 0 ELSE Len(start_points) - 1

\* state set S[j] of the span list in the current state
S(j) == SpanAt(items, start_points, j)

(***************************************************************************)
(* Init: the arguments of RuleSet, parse and find_full_parse.              *)
(***************************************************************************)
NullIter == 0 - 1
GarbageIter == 0 - 2
EmptyResult == [state_set |-> NullIter, item |-> NullIter]

\* print_parse_tree has not run: nothing reported
NoTree ==
    [events |-> << >>, steps |-> 0, outcome |-> "none", checked |-> FALSE,
     last_end |-> 0, walks |-> << >>]

Init ==
    /\ rules \in Grammars
    /\ start_symbol \in StartSymbols
    /\ input \in Inputs
    /\ max_item_capacity \in Capacities
    /\ rule_spans = [s \in Symbols |-> EmptyRange]
    /\ nullable = [s \in Symbols |-> FALSE]
    /\ m_byte_capacity = 0
    /\ items = << >>
    /\ start_points = << >>
    /\ next_state_set = << >>
    /\ curr_pos = 0
    /\ curr_token = 0
    /\ walk = 0
    /\ scanned = << >>
    /\ full_parse = EmptyResult
    /\ input_size = 0
    /\ oob = FALSE
    /\ tree = NoTree
    /\ big_array = NoBigArray
    /\ arrays = NoArrays
    /\ mappings = << >>
    /\ pc = "ctor"

(***************************************************************************)
(* The arithmetic example (example.cpp): ten rules for Sum, Product,       *)
(* Factor and Number, start symbol Sum, input 1+(8*9).                     *)
(***************************************************************************)
ArithRules ==
    << Rule("Sum", <<"Sum", "Plus", "Product">>),
       Rule("Sum", <<"Sum", "Minus", "Product">>),
       Rule("Sum", <<"Product">>),
       Rule("Product", <<"Product", "Mult", "Factor">>),
       Rule("Product", <<"Product", "Div", "Factor">>),
       Rule("Product", <<"Factor">>),
       Rule("Factor", <<"LParen", "Sum", "RParen">>),
       Rule("Factor", <<"Number">>),
       Rule("Number", <<"Digit">>),
       Rule("Number", <<"Digit", "Number">>) >>

ArithInput == <<"1", "+", "(", "8", "*", "9", ")">>

ArithInit ==
    /\ rules = ArithRules
    /\ start_symbol = "Sum"
    /\ input \in {SubSeq(ArithInput, 1, n) : n \in 0..Len(ArithInput)}
    /\ max_item_capacity \in {ArithCapacity, ArithCapacity + 1}
    /\ rule_spans = [s \in Symbols |-> EmptyRange]
    /\ nullable = [s \in Symbols |-> FALSE]
    /\ m_byte_capacity = 0
    /\ items = << >>
    /\ start_points = << >>
    /\ next_state_set = << >>
    /\ curr_pos = 0
    /\ curr_token = 0
    /\ walk = 0
    /\ scanned = << >>
    /\ full_parse = EmptyResult
    /\ input_size = 0
    /\ oob = FALSE
    /\ tree = NoTree
    /\ big_array = NoBigArray
    /\ arrays = NoArrays
    /\ mappings = << >>
    /\ pc = "ctor"

\* A grammar in which one segment holds two completed items of one symbol
\* that start at different positions: Factor is predicted at 0 (through
\* Number) and at 1 (after Product).
BoundaryRules ==
    << Rule("Sum", <<"Product", "Factor">>),
       Rule("Sum", <<"Number", "Minus">>),
       Rule("Product", <<"Digit">>),
       Rule("Number", <<"Factor">>),
       Rule("Factor", <<"A", "Plus">>),
       Rule("Factor", <<"Plus">>),
       Rule("A", <<"Digit">>) >>

BoundaryInput == <<"1", "+", "-">>

\* The same with one derivation per sentence: Number is predicted at 0
\* (through Sum) and at 1 (after Product -> Digit . Number).
NumberRules ==
    << Rule("Sum", <<"Number">>),
       Rule("Sum", <<"Product", "Plus">>),
       Rule("Product", <<"Digit", "Number">>),
       Rule("Number", <<"Digit">>),
       Rule("Number", <<"Digit", "Factor">>),
       Rule("Factor", <<"Digit">>) >>

NumberInput == <<"1", "1", "+">>

Prefixes(seq) == {SubSeq(seq, 1, n) : n \in 0..Len(seq)}

BoundaryInit ==
    /\ \/ rules = BoundaryRules /\ input \in Prefixes(BoundaryInput)
       \/ rules = NumberRules /\ input \in Prefixes(NumberInput)
    /\ start_symbol = "Sum"
    /\ max_item_capacity \in Capacities
    /\ rule_spans = [s \in Symbols |-> EmptyRange]
    /\ nullable = [s \in Symbols |-> FALSE]
    /\ m_byte_capacity = 0
    /\ items = << >>
    /\ start_points = << >>
    /\ next_state_set = << >>
    /\ curr_pos = 0
    /\ curr_token = 0
    /\ walk = 0
    /\ scanned = << >>
    /\ full_parse = EmptyResult
    /\ input_size = 0
    /\ oob = FALSE
    /\ tree = NoTree
    /\ big_array = NoBigArray
    /\ arrays = NoArrays
    /\ mappings = << >>
    /\ pc = "ctor"

RuleSetCtor ==
    /\ pc = "ctor"
    /\ rule_spans' = BuildRuleSpans(rules, 0, rule_spans)
    /\ nullable' = MarkNullable(rules, nullable)
    /\ pc' = "seed"
    /\ UNCHANGED << rules, start_symbol, input, max_item_capacity, m_byte_capacity,
                    items, start_points, next_state_set, curr_pos, curr_token,
                    walk, scanned, full_parse, input_size, oob,
                    tree, big_array, arrays, mappings >>

(***************************************************************************)
(* earley::parse                                                           *)
(***************************************************************************)
\* state_sets{max_item_capacity}; add_span(); one emplace_back per start rule
RECURSIVE SeedLoop(_, _, _, _)
SeedLoop(sl, cap, rule_idx, last) ==
    IF rule_idx >= last \/ sl.thrown THEN sl
    ELSE SeedLoop(emplace_back(sl, cap, EarleyItem(rule_idx, 0, 0)),
                  cap, rule_idx + 1, last)

ParseBegin ==
    /\ pc = "seed"
    /\ LET cap == ByteCapacity(max_item_capacity, ItemSize)
           sl == SeedLoop(add_span(SpanListOf(<< >>, << >>)), cap,
                          rule_spans[start_symbol].first,
                          rule_spans[start_symbol].last)
       IN  /\ m_byte_capacity' = cap
           /\ items' = sl.items
           /\ start_points' = sl.start_points
           /\ pc' = IF sl.thrown THEN "oom" ELSE "loop"
    /\ next_state_set' = << >>
    /\ curr_pos' = 0
    /\ curr_token' = 0
    /\ UNCHANGED << rules, start_symbol, input, max_item_capacity, rule_spans,
                    nullable, walk, scanned, full_parse, input_size, oob,
                    tree, big_array, arrays, mappings >>

\* The for-loop's condition !state_sets[curr_pos].empty() holds: the walk of
\* curr_span() starts at the open segment's first item.
LoopEnter ==
    /\ pc = "loop"
    /\ S(curr_pos) # << >>
    /\ walk' = start_points[Len(start_points) - 1]
    /\ pc' = "walk"
    /\ UNCHANGED << rules, start_symbol, input, max_item_capacity, rule_spans,
                    nullable, m_byte_capacity, items, start_points,
                    next_state_set, curr_pos, curr_token, scanned, full_parse,
                    input_size, oob,
                    tree, big_array, arrays, mappings >>

\* The for-loop's condition fails: parse returns state_sets.
LoopExit ==
    /\ pc = "loop"
    /\ S(curr_pos) = << >>
    /\ pc' = "parsed"
    /\ UNCHANGED << rules, start_symbol, input, max_item_capacity, rule_spans,
                    nullable, m_byte_capacity, items, start_points,
                    next_state_set, curr_pos, curr_token, walk, scanned,
                    full_parse, input_size, oob,
                    tree, big_array, arrays, mappings >>

\* A faulty variant of CompletionLoop (sensitivity test):
\* every incomplete item of the origin set is
\* advanced, whatever symbol it waits for
RECURSIVE CompletionLoop_AnySymbol(_, _, _, _, _)
CompletionLoop_AnySymbol(sl, cap, span, k, symbol) ==
    IF k > Len(span) \/ sl.thrown THEN sl
    ELSE LET start_item == span[k]
             start_rule == rules[start_item.rule_idx + 1]
         IN  CompletionLoop_AnySymbol(
                 IF /\ ~is_completed(start_item, Len(start_rule.components))
                    /\ ~item_exists(curr_span(sl), start_item)
                 THEN emplace_back(sl, cap,
                          EarleyItem(start_item.rule_idx, start_item.start_pos,
                                     start_item.progress + 1))
                 ELSE sl,
                 cap, span, k + 1, symbol)

\* The completion loop over the snapshot span state_sets[item.start_pos].
\* item_exists looks for start_item itself, as the code does.
RECURSIVE CompletionLoop(_, _, _, _, _)
CompletionLoop(sl, cap, span, k, symbol) ==
    IF k > Len(span) \/ sl.thrown THEN sl
    ELSE LET start_item == span[k]
             start_rule == rules[start_item.rule_idx + 1]
         IN  CompletionLoop(
                 IF /\ ~is_completed(start_item, Len(start_rule.components))
                    /\ next_symbol(start_rule, start_item) = symbol
                    /\ ~item_exists(curr_span(sl), start_item)
                 THEN emplace_back(sl, cap,
                          EarleyItem(start_item.rule_idx, start_item.start_pos,
                                     start_item.progress + 1))
                 ELSE sl,
                 cap, span, k + 1, symbol)

\* A faulty variant of PredictLoop (sensitivity test):
\* predicted items start at 0 instead of curr_pos
RECURSIVE PredictLoop_StartZero(_, _, _, _, _)
PredictLoop_StartZero(sl, cap, rule_idx, last, pos) ==
    IF rule_idx >= last \/ sl.thrown THEN sl
    ELSE LET predicted_item == EarleyItem(rule_idx, 0, 0)
         IN  PredictLoop_StartZero(
                 IF ~item_exists(curr_span(sl), predicted_item)
                 THEN emplace_back(sl, cap, predicted_item)
                 ELSE sl,
                 cap, rule_idx + 1, last, pos)

RECURSIVE PredictLoop(_, _, _, _, _)
PredictLoop(sl, cap, rule_idx, last, pos) ==
    IF rule_idx >= last \/ sl.thrown THEN sl
    ELSE LET predicted_item == EarleyItem(rule_idx, pos, 0)
         IN  PredictLoop(
                 IF ~item_exists(curr_span(sl), predicted_item)
                 THEN emplace_back(sl, cap, predicted_item)
                 ELSE sl,
                 cap, rule_idx + 1, last, pos)

\* A faulty variant of NullableAdvance (sensitivity test):
\* prediction alone, the item is never advanced over a nullable symbol
NullableAdvance_Never(sl, cap, item, next_sym) == sl

\* "Advance item if it is incomplete and the next symbol is nullable"
NullableAdvance(sl, cap, item, next_sym) ==
    IF sl.thrown \/ ~is_nullable(next_sym) THEN sl
    ELSE LET predicted_item == [item EXCEPT !.progress = @ + 1]
         IN  IF ~item_exists(curr_span(sl), predicted_item)
             THEN emplace_back(sl, cap, predicted_item)
             ELSE sl

\* A faulty variant of ScanItem (sensitivity test):
\* the dot is not advanced
ScanItem_DotNotAdvanced(item) == EarleyItem(item.rule_idx, item.start_pos, item.progress)

\* The item a scan stages for the next state set
ScanItem(item) == EarleyItem(item.rule_idx, item.start_pos, item.progress + 1)

WalkItem == items[walk + 1]
WalkRule == rules[WalkItem.rule_idx + 1]
end_token == Len(input)

\* A faulty variant of SpanEnd_eq (sensitivity test):
\* the end of the range is where the segment ended when its walk began
SpanEnd_eq_Snapshot(pos, its) ==
    LET first == start_points[Len(start_points) - 1]
        size == IF curr_pos = 0
                THEN rule_spans[start_symbol].last - rule_spans[start_symbol].first
                ELSE scanned[curr_pos]
    IN  pos >= first + size

\* SpanEnd::operator==: the walk of curr_span() ends at the live end of items
SpanEnd_eq(pos, its) == pos >= Len(its)

\* What the three branches leave alone
WalkFrame ==
    UNCHANGED << rules, start_symbol, input, max_item_capacity, rule_spans,
                 nullable, m_byte_capacity, curr_pos, curr_token, scanned,
                 full_parse, input_size, oob,
                    tree, big_array, arrays, mappings >>

WalkStore(sl) ==
    /\ items' = sl.items
    /\ start_points' = sl.start_points
    /\ pc' = IF sl.thrown THEN "oom" ELSE "walk"
    /\ walk' = walk + 1

Completion ==
    /\ pc = "walk"
    /\ ~SpanEnd_eq(walk, items)
    /\ is_completed(WalkItem, Len(WalkRule.components))
    /\ WalkStore(CompletionLoop(SpanListOf(items, start_points), m_byte_capacity,
                                S(WalkItem.start_pos), 1, WalkRule.symbol))
    /\ UNCHANGED next_state_set
    /\ WalkFrame

Scan ==
    /\ pc = "walk"
    /\ ~SpanEnd_eq(walk, items)
    /\ ~is_completed(WalkItem, Len(WalkRule.components))
    /\ is_terminal(next_symbol(WalkRule, WalkItem))
    /\ curr_token # end_token
    /\ next_state_set' =
           IF matches_terminal(next_symbol(WalkRule, WalkItem), input[curr_token + 1])
           THEN Append(next_state_set, ScanItem(WalkItem))
           ELSE next_state_set
    /\ walk' = walk + 1
    /\ UNCHANGED << items, start_points, pc >>
    /\ WalkFrame

Prediction ==
    /\ pc = "walk"
    /\ ~SpanEnd_eq(walk, items)
    /\ ~is_completed(WalkItem, Len(WalkRule.components))
    /\ ~(is_terminal(next_symbol(WalkRule, WalkItem)) /\ curr_token # end_token)
    /\ LET next_sym == next_symbol(WalkRule, WalkItem)
           predicted == PredictLoop(SpanListOf(items, start_points), m_byte_capacity,
                                    rule_spans[next_sym].first,
                                    rule_spans[next_sym].last, curr_pos)
       IN  WalkStore(NullableAdvance(predicted, m_byte_capacity, WalkItem, next_sym))
    /\ UNCHANGED next_state_set
    /\ WalkFrame

\* A faulty variant of CloseStateSet (sensitivity test):
\* when no scan was staged parse returns at once,
\* without opening the next (empty) segment
CloseStateSet_NoEmptySegment ==
    /\ pc = "walk"
    /\ SpanEnd_eq(walk, items)
    /\ LET sl == IF next_state_set = << >>
                 THEN SpanListOf(items, start_points)
                 ELSE append(add_span(SpanListOf(items, start_points)),
                             m_byte_capacity, next_state_set)
       IN  /\ items' = sl.items
           /\ start_points' = sl.start_points
           /\ pc' = IF sl.thrown THEN "oom"
                    ELSE IF next_state_set = << >> THEN "parsed" ELSE "loop"
           /\ scanned' = IF sl.thrown \/ next_state_set = << >> THEN scanned
                         ELSE Append(scanned, Len(next_state_set))
    /\ next_state_set' = << >>
    /\ curr_pos' = curr_pos + 1
    /\ curr_token' = curr_token + 1
    /\ UNCHANGED << rules, start_symbol, input, max_item_capacity, rule_spans,
                    nullable, m_byte_capacity, walk, full_parse, input_size, oob,
                    tree, big_array, arrays, mappings >>

\* The walk reached the live end of the open segment: add_span, flush the
\* staged scans, clear them, ++curr_pos, ++curr_token.  When append throws
\* the rest is not executed.  ++curr_token on an iterator that equals
\* end_token is undefined: the iterator moves past the end, or the build's
\* checked iterator aborts.
CloseStateSet ==
    /\ pc = "walk"
    /\ SpanEnd_eq(walk, items)
    /\ LET sl == append(add_span(SpanListOf(items, start_points)), m_byte_capacity,
                        next_state_set)
       IN  /\ items' = sl.items
           /\ start_points' = sl.start_points
           /\ IF sl.thrown
              THEN /\ pc' = "oom"
                   /\ UNCHANGED << scanned, next_state_set, curr_pos, curr_token >>
              ELSE /\ scanned' = Append(scanned, Len(next_state_set))
                   /\ next_state_set' = << >>
                   /\ curr_pos' = curr_pos + 1
                   /\ \/ /\ curr_token' = curr_token + 1
                         /\ pc' = "loop"
                      \/ /\ curr_token = end_token
                         /\ curr_token' = curr_token
                         /\ pc' = "overrun"
    /\ UNCHANGED << rules, start_symbol, input, max_item_capacity, rule_spans,
                    nullable, m_byte_capacity, walk, full_parse, input_size, oob,
                    tree, big_array, arrays, mappings >>

(***************************************************************************)
(* earley::parse as one function of its input: the state sets it returns  *)
(* for the grammar and capacity of the current state and the input in.     *)
(***************************************************************************)
\* for(auto item : state_set): w is the walk's offset, staged is next_state_set
RECURSIVE ParseWalk(_, _, _, _, _)
ParseWalk(sl, staged, w, pos, in) ==
    IF sl.thrown \/ SpanEnd_eq(w, sl.items) THEN [sl |-> sl, staged |-> staged]
    ELSE LET item == sl.items[w + 1]
             item_rule == rules[item.rule_idx + 1]
         IN  IF is_completed(item, Len(item_rule.components))
             THEN ParseWalk(CompletionLoop(sl, m_byte_capacity,
                                           SpanAt(sl.items, sl.start_points, item.start_pos),
                                           1, item_rule.symbol),
                            staged, w + 1, pos, in)
             ELSE LET next_sym == next_symbol(item_rule, item)
                  IN  IF is_terminal(next_sym) /\ pos # Len(in)
                      THEN ParseWalk(sl,
                                     IF matches_terminal(next_sym, in[pos + 1])
                                     THEN Append(staged, ScanItem(item))
                                     ELSE staged,
                                     w + 1, pos, in)
                      ELSE ParseWalk(NullableAdvance(
                                         PredictLoop(sl, m_byte_capacity,
                                                     rule_spans[next_sym].first,
                                                     rule_spans[next_sym].last, pos),
                                         m_byte_capacity, item, next_sym),
                                     staged, w + 1, pos, in)

\* for(curr_pos = 0; !state_sets[curr_pos].empty(); ++curr_pos, ++curr_token)
RECURSIVE ParseLoop(_, _, _)
ParseLoop(sl, pos, in) ==
    IF sl.thrown \/ SpanAt(sl.items, sl.start_points, pos) = << >> THEN sl
    ELSE LET walked == ParseWalk(sl, << >>, sl.start_points[Len(sl.start_points) - 1],
                                 pos, in)
         IN  IF walked.sl.thrown THEN walked.sl
             ELSE ParseLoop(append(add_span(walked.sl), m_byte_capacity, walked.staged),
                            pos + 1, in)

ParseOf(in) ==
    ParseLoop(SeedLoop(add_span(SpanListOf(<< >>, << >>)), m_byte_capacity,
                       rule_spans[start_symbol].first, rule_spans[start_symbol].last),
              0, in)

(***************************************************************************)
(* earley::find_full_parse, called on what parse returned.  Only           *)
(* input.size() of its input argument is used.                             *)
(***************************************************************************)
\* A faulty variant of is_full_parse (sensitivity test):
\* the start position is not compared with 0
is_full_parse_AnyStart(rs, symbol, item) ==
    LET rule == rs[item.rule_idx + 1]
    IN  /\ item.progress = Len(rule.components)
        /\ rule.symbol = symbol

is_full_parse(rs, symbol, item) ==
    LET rule == rs[item.rule_idx + 1]
    IN  /\ is_completed(item, Len(rule.components))
        /\ item.start_pos = 0
        /\ rule.symbol = symbol

\* std::ranges::find_if: the offset of the first full parse, Len(state_set) if none
RECURSIVE FindIfFullParse(_, _, _, _)
FindIfFullParse(state_set, k, rs, symbol) ==
    IF k >= Len(state_set) THEN Len(state_set)
    ELSE IF is_full_parse(rs, symbol, state_set[k + 1]) THEN k
    ELSE FindIfFullParse(state_set, k + 1, rs, symbol)

FullParseIn(n) ==
    LET at == FindIfFullParse(S(n), 0, rules, start_symbol)
    IN  IF at = Len(S(n)) THEN EmptyResult ELSE [state_set |-> n, item |-> at]

\* begin() + input.size() is dereferenced: start_points[n] and start_points[n+1]
\* are read, and start_points holds the offsets 0 .. size()-1.
ReadsOutOfBounds(n) == n + 1 > Len(start_points) - 1

FindFullParse ==
    /\ pc = "parsed"
    /\ \E n \in (0..(MaxInputLen + 1)) \cup {Len(input)} :
           /\ input_size' = n
           /\ IF Len(start_points) < n
              THEN /\ full_parse' = EmptyResult
                   /\ oob' = FALSE
                   /\ pc' = "ffp_done"
              ELSE IF ReadsOutOfBounds(n)
              THEN \* undefined behaviour: any result, or a crash
                   /\ oob' = TRUE
                   /\ \/ /\ pc' = "ffp_done"
                         /\ full_parse' \in {EmptyResult,
                                             [state_set |-> n, item |-> GarbageIter]}
                      \/ /\ pc' = "crashed"
                         /\ full_parse' = EmptyResult
              ELSE /\ full_parse' = FullParseIn(n)
                   /\ oob' = FALSE
                   /\ pc' = "ffp_done"
    /\ UNCHANGED << rules, start_symbol, input, max_item_capacity, rule_spans,
                    nullable, m_byte_capacity, items, start_points,
                    next_state_set, curr_pos, curr_token, walk, scanned, tree,
                    big_array, arrays, mappings >>

(***************************************************************************)
(* The right-to-left traversal: print_parse_tree, with find_completed_item,*)
(* advance_from_terminal and advance_from_nonterminal.  curr_state_set is  *)
(* the index of the segment the iterator points at.  A traversal value is  *)
(* [events, steps, outcome, ...]: events are the lines written, steps      *)
(* counts the subcomponents visited, last_end and walks record where the   *)
(* finished loops left curr_state_set, and outcome is "ok" while the       *)
(* traversal                                                               *)
(* runs, or how it broke off:                                              *)
(*   "assert"    assert(curr_item != curr_state_set->end()) failed;        *)
(*   "underflow" advance_from_terminal decremented begin();                *)
(*   "overflow"  the recursion went past MaxTraversalSteps subcomponents.  *)
(***************************************************************************)
NoItem == [rule_idx |-> NullIter, start_pos |-> NullIter, progress |-> NullIter]

\* history: the walk over the right-hand side of item ended at segment ended_at
Walked(item, ended_at) == [item |-> item, ended_at |-> ended_at]

Event(kind, symbol, item, indent_level) ==
    [kind |-> kind, symbol |-> symbol, item |-> item, indent_level |-> indent_level]

\* std::ranges::find_if from offset first: Len(state_set) stands for limit
RECURSIVE find_completed_item(_, _, _)
find_completed_item(state_set, first, comp_sym) ==
    IF first >= Len(state_set) THEN Len(state_set)
    ELSE LET item == state_set[first + 1]
             item_rule == rules[item.rule_idx + 1]
         IN  IF item_rule.symbol = comp_sym
                /\ is_completed(item, Len(item_rule.components))
             THEN first
             ELSE find_completed_item(state_set, first + 1, comp_sym)

\* A faulty variant of advance_from_terminal (sensitivity test):
\* the state set iterator is left where it is
advance_from_terminal_Stay(state_set) == state_set

advance_from_terminal(state_set) == state_set - 1

advance_from_nonterminal(state_set, item) == item.start_pos

\* the "Alternative: " lines for the later completed items of comp_sym
RECURSIVE Alternatives(_, _, _, _)
Alternatives(state_set, first, comp_sym, indent_level) ==
    LET alt_item == find_completed_item(state_set, first, comp_sym)
    IN  IF alt_item = Len(state_set) THEN << >>
        ELSE <<Event("alternative", comp_sym, state_set[alt_item + 1], indent_level)>>
             \o Alternatives(state_set, alt_item + 1, comp_sym, indent_level)

\* The loop of print_parse_tree over rule.components from comp (1-based,
\* counted from the left) down to 1.
RECURSIVE print_parse_tree(_, _, _, _, _)
print_parse_tree(t, rule, comp, curr_state_set, indent_level) ==
    LET comp_sym == rule.components[comp]
        printed == [t EXCEPT !.events = Append(@, Event("terminal", comp_sym, NoItem,
                                                        indent_level)),
                             !.steps = @ + 1]
        state_set == S(curr_state_set)
        curr_item == find_completed_item(state_set, 0, comp_sym)
        item == state_set[curr_item + 1]
        item_rule == rules[item.rule_idx + 1]
        below == print_parse_tree(
                     [t EXCEPT !.events = Append(@, Event("item", comp_sym, item,
                                                          indent_level)),
                               !.steps = @ + 1],
                     item_rule, Len(item_rule.components), curr_state_set,
                     indent_level + 1)
        after == [below EXCEPT !.events = @ \o Alternatives(state_set, curr_item + 1,
                                                            comp_sym, indent_level),
                               !.walks = Append(@, Walked(item, below.last_end))]
    IN  \* the arms are tried in this order; each one presupposes that the
        \* ones before it did not apply
        CASE t.outcome # "ok" -> t
          [] comp = 0 ->
               \* the loop is over: curr_state_set is where this rule's walk ended
               [t EXCEPT !.last_end = curr_state_set]
          [] t.steps >= MaxTraversalSteps -> [t EXCEPT !.outcome = "overflow"]
          [] is_terminal(comp_sym) /\ curr_state_set <= 0 /\ t.checked ->
               \* --state_set at or before begin(): a checked iterator aborts
               [printed EXCEPT !.outcome = "underflow"]
          [] is_terminal(comp_sym) ->
               print_parse_tree(printed, rule, comp - 1,
                                advance_from_terminal(curr_state_set), indent_level)
          [] curr_state_set < 0 ->
               \* curr_state_set->begin() through an iterator before begin():
               \* the segment read is not one of the list's
               [t EXCEPT !.steps = @ + 1, !.outcome = "underflow"]
          [] curr_item = Len(state_set) ->
               [t EXCEPT !.steps = @ + 1, !.outcome = "assert"]
          [] below.outcome # "ok" ->
               \* the recursive call broke off: nothing is written after it
               below
          [] OTHER ->
               print_parse_tree(after, rule, comp - 1,
                                advance_from_nonterminal(curr_state_set, item),
                                indent_level)

\* main of the driver: the tree of the full parse is printed when
\* find_full_parse gave a result.
PrintParseTree ==
    /\ pc = "ffp_done"
    /\ full_parse.item # NullIter
    /\ IF oob
       THEN \* the result was read out of bounds: nothing sound can follow
            /\ tree' = NoTree
            /\ pc' = "crashed"
       ELSE \E checked \in BOOLEAN :
            \* checked: the build's vector iterators abort on leaving the range
            LET item == S(full_parse.state_set)[full_parse.item + 1]
                full_parse_rule == rules[item.rule_idx + 1]
                whole == print_parse_tree([NoTree EXCEPT !.outcome = "ok",
                                                          !.checked = checked],
                                          full_parse_rule,
                                          Len(full_parse_rule.components),
                                          full_parse.state_set, 0)
                t == IF whole.outcome = "ok"
                     THEN [whole EXCEPT !.walks = Append(@, Walked(item, whole.last_end))]
                     ELSE whole
            IN  /\ tree' = t
                /\ pc' = CASE t.outcome = "ok" -> "printed"
                           [] t.outcome = "assert" -> "aborted"
                           [] OTHER -> "crashed"
    /\ UNCHANGED << rules, start_symbol, input, max_item_capacity, rule_spans,
                    nullable, m_byte_capacity, items, start_points,
                    next_state_set, curr_pos, curr_token, walk, scanned,
                    full_parse, input_size, oob, big_array, arrays, mappings >>

(***************************************************************************)
(* test_big_array: a BigArray on its own.  The constructor's mmap may fail *)
(* (it does for a length of 0), and each append checks the space first.    *)
(***************************************************************************)
Values == {5, 89, 70}
BigArrayCapacities == {0, 1, 2, 3, 600}
ElementSizes == {4, 8}
Ranges == UNION { [1..n -> Values] : n \in 0..2 }

ParseIdle ==
    UNCHANGED << rules, start_symbol, input, max_item_capacity, rule_spans,
                 nullable, m_byte_capacity, items, start_points, next_state_set,
                 curr_pos, curr_token, walk, scanned, full_parse, input_size,
                 oob, tree >>

BigArrayInit ==
    /\ rules = << >>
    /\ start_symbol = "A"
    /\ input = << >>
    /\ max_item_capacity = 1
    /\ rule_spans = [s \in Symbols |-> EmptyRange]
    /\ nullable = [s \in Symbols |-> FALSE]
    /\ m_byte_capacity = 0
    /\ items = << >>
    /\ start_points = << >>
    /\ next_state_set = << >>
    /\ curr_pos = 0
    /\ curr_token = 0
    /\ walk = 0
    /\ scanned = << >>
    /\ full_parse = EmptyResult
    /\ input_size = 0
    /\ oob = FALSE
    /\ tree = NoTree
    /\ big_array = NoBigArray
    /\ arrays = NoArrays
    /\ mappings = << >>
    /\ pc = "ba_ctor"

BigArrayCtor ==
    /\ pc = "ba_ctor"
    /\ \E capacity \in BigArrayCapacities, element_size \in ElementSizes :
           LET ba == BigArray(capacity, element_size)
           IN  \/ /\ ba.m_byte_capacity > 0
                  /\ big_array' = ba
                  /\ pc' = "ba_ready"
               \/ \* mmap returned MAP_FAILED: std::runtime_error(strerror(errno))
                  /\ big_array' = [ba EXCEPT !.m_byte_capacity = 0]
                  /\ pc' = "ba_map_failed"
    /\ ParseIdle
    /\ UNCHANGED << arrays, mappings >>

BigArrayStore(fits, ba) ==
    IF fits
    THEN big_array' = ba /\ pc' = "ba_ready"
    ELSE UNCHANGED big_array /\ pc' = "ba_oom"

PushBack ==
    /\ pc = "ba_ready"
    /\ Len(big_array.pushed) < MaxPushes
    /\ \E element \in Values :
           BigArrayStore(check_has_space(big_array, big_array.element_size, 1),
                         push_back(big_array, element))
    /\ ParseIdle
    /\ UNCHANGED << arrays, mappings >>

EmplaceBack ==
    /\ pc = "ba_ready"
    /\ Len(big_array.pushed) < MaxPushes
    /\ \E element \in Values :
           BigArrayStore(check_has_space(big_array, big_array.element_size, 1),
                         BigArray_emplace_back(big_array, element))
    /\ ParseIdle
    /\ UNCHANGED << arrays, mappings >>

AppendRange ==
    /\ pc = "ba_ready"
    /\ Len(big_array.pushed) < MaxPushes
    /\ \E range \in Ranges :
           BigArrayStore(check_has_space(big_array, big_array.element_size, Len(range)),
                         BigArray_append(big_array, range))
    /\ ParseIdle
    /\ UNCHANGED << arrays, mappings >>

(***************************************************************************)
(* The lifetime of BigArrayBase objects: constructor, move constructor,    *)
(* move assignment, destructor.  A reservation records who ever owned it   *)
(* and how often munmap was called on it.                                  *)
(***************************************************************************)
LifetimeInit ==
    /\ rules = << >>
    /\ start_symbol = "A"
    /\ input = << >>
    /\ max_item_capacity = 1
    /\ rule_spans = [s \in Symbols |-> EmptyRange]
    /\ nullable = [s \in Symbols |-> FALSE]
    /\ m_byte_capacity = 0
    /\ items = << >>
    /\ start_points = << >>
    /\ next_state_set = << >>
    /\ curr_pos = 0
    /\ curr_token = 0
    /\ walk = 0
    /\ scanned = << >>
    /\ full_parse = EmptyResult
    /\ input_size = 0
    /\ oob = FALSE
    /\ tree = NoTree
    /\ big_array = NoBigArray
    /\ arrays = NoArrays
    /\ mappings = << >>
    /\ pc = "lifetime"

LifetimeFrame ==
    /\ pc = "lifetime"
    /\ ParseIdle
    /\ UNCHANGED << big_array, pc >>

\* other.m_byte_capacity = 0; other.m_data = nullptr (and m_end)
MovedFrom(obj) == [obj EXCEPT !.m_data = nullptr, !.m_byte_capacity = 0]

\* the reservation m has one more owner
OwnedBy(maps, m, a) ==
    IF m = nullptr THEN maps
    ELSE [maps EXCEPT ![m].owners = @ \cup {a}]

\* BigArrayBase::operator=(BigArrayBase&&): this is a, other is b; the three
\* members are copied, then other's are cleared (a and b may be one object)
move_assign(objs, a, b) ==
    LET copied == [objs EXCEPT ![a].m_data = objs[b].m_data,
                               ![a].m_byte_capacity = objs[b].m_byte_capacity]
    IN  [copied EXCEPT ![b] = MovedFrom(@)]

\* BigArrayBase(capacity, element_size): mmap succeeds or the constructor throws
Construct ==
    /\ \E a \in ArrayIds, capacity \in {1, 600}, element_size \in ElementSizes :
           /\ arrays[a].state = "unborn"
           /\ \/ /\ mappings' = Append(mappings,
                                       [size |-> ByteCapacity(capacity, element_size),
                                        owners |-> {a}, unmaps |-> 0])
                 /\ arrays' = [arrays EXCEPT ![a] =
                                  [state |-> "alive", m_data |-> Len(mappings) + 1,
                                   m_byte_capacity |-> ByteCapacity(capacity, element_size)]]
              \/ /\ arrays' = [arrays EXCEPT ![a].state = "failed"]
                 /\ UNCHANGED mappings
    /\ LifetimeFrame

\* BigArrayBase(BigArrayBase&& other): a is the new object, b is other
MoveConstruct ==
    /\ \E a, b \in ArrayIds :
           /\ arrays[a].state = "unborn"
           /\ arrays[b].state = "alive"
           /\ arrays' = [arrays EXCEPT ![a] = [arrays[b] EXCEPT !.state = "alive"],
                                       ![b] = MovedFrom(@)]
           /\ mappings' = OwnedBy(mappings, arrays[b].m_data, a)
    /\ LifetimeFrame

MoveAssign ==
    /\ \E a, b \in ArrayIds :
           /\ arrays[a].state = "alive"
           /\ arrays[b].state = "alive"
           /\ arrays' = move_assign(arrays, a, b)
           /\ mappings' = OwnedBy(mappings, arrays'[a].m_data, a)
    /\ LifetimeFrame

\* ~BigArrayBase: munmap(m_data, m_byte_capacity) unless m_data is nullptr
Destroy ==
    /\ \E a \in ArrayIds :
           /\ arrays[a].state = "alive"
           /\ arrays' = [arrays EXCEPT ![a].state = "destroyed"]
           /\ mappings' = IF arrays[a].m_data = nullptr THEN mappings
                          ELSE [mappings EXCEPT ![arrays[a].m_data].unmaps = @ + 1]
    /\ LifetimeFrame

NextLifetime ==
    \/ Construct
    \/ MoveConstruct
    \/ MoveAssign
    \/ Destroy

NextBigArray ==
    \/ BigArrayCtor
    \/ PushBack
    \/ EmplaceBack
    \/ AppendRange

(***************************************************************************)
(* Reference semantics of the grammar, independent of the recognizer:      *)
(* Derivable is the least set of triples <<X, i, j>> such that nonterminal *)
(* X derives input[i..j) (the tokens at offsets i .. j-1).                 *)
(***************************************************************************)
SymDerives(D, s, i, m) ==
    IF s \in Terminals
    THEN m = i + 1 /\ matches_terminal(s, input[m])
    ELSE <<s, i, m>> \in D

RECURSIVE SeqDerives(_, _, _, _, _)
SeqDerives(D, components, k, i, j) ==
    IF k > Len(components) THEN i = j
    ELSE \E m \in i..j :
             SymDerives(D, components[k], i, m) /\ SeqDerives(D, components, k + 1, m, j)

DeriveStep(D) ==
    D \cup { t \in Nonterminals \X (0..Len(input)) \X (0..Len(input)) :
               /\ t[2] <= t[3]
               /\ \E r \in 1..Len(rules) :
                      /\ rules[r].symbol = t[1]
                      /\ SeqDerives(D, rules[r].components, 1, t[2], t[3]) }

RECURSIVE DeriveFix(_)
DeriveFix(D) ==
    LET after == DeriveStep(D)
    IN  IF after = D THEN D ELSE DeriveFix(after)

Derivable == DeriveFix({})

\* The items of S[j] as a set
ItemsOf(j) == { S(j)[k] : k \in 1..Len(S(j)) }

Completed(item) == item.progress = Len(rules[item.rule_idx + 1].components)

Lhs(item) == rules[item.rule_idx + 1].symbol

\* The full-parse predicate of find_full_parse, for the start symbol
FullParseItem(item) ==
    Completed(item) /\ item.start_pos = 0 /\ Lhs(item) = start_symbol

\* find_full_parse was called with the input parse consumed
SameInput == pc = "ffp_done" /\ input_size = Len(input)

(***************************************************************************)
(* C1  Recognizer completeness: whenever the start symbol derives the      *)
(* whole input, find_full_parse on the state sets parse returned (same     *)
(* input) gives a non-empty result.                                        *)
(***************************************************************************)
C1_Completeness ==
    (SameInput /\ <<start_symbol, 0, Len(input)>> \in Derivable)
        => full_parse.item # NullIter

(***************************************************************************)
(* C2  Set semantics: in the state sets parse returns, no two items of one *)
(* state set are equal.                                                    *)
(***************************************************************************)
NoDuplicates(state_set) ==
    \A a, b \in 1..Len(state_set) : a # b => state_set[a] # state_set[b]

C2_SetSemantics ==
    pc = "parsed" => \A j \in 0..(NumSegments - 1) : NoDuplicates(S(j))

(***************************************************************************)
(* C3  Completion soundness: every complete item c of S[j] in the output   *)
(* of parse has start_pos <= j, and the left-hand side of its rule derives *)
(* input[c.start_pos .. j).                                                *)
(***************************************************************************)
C3_CompletionSound ==
    pc = "parsed" =>
        LET D == Derivable
        IN  \A j \in 0..(NumSegments - 1) :
                \A c \in ItemsOf(j) :
                    Completed(c) =>
                        c.start_pos <= j /\ <<Lhs(c), c.start_pos, j>> \in D

\* A returned parse holding a complete item over a non-empty stretch of input
\* whose rule has a nullable component (the nullable advance took part).
C3_Witness ==
    /\ pc = "parsed"
    /\ \E j \in 1..(NumSegments - 1) :
           \E c \in ItemsOf(j) :
               /\ Completed(c)
               /\ c.start_pos < j
               /\ \E k \in 1..Len(rules[c.rule_idx + 1].components) :
                      nullable[rules[c.rule_idx + 1].components[k]]

(***************************************************************************)
(* C4  find_full_parse returns the empty result whenever state_sets holds  *)
(* fewer than input_size + 1 segments, without reading start_points out of *)
(* bounds.                                                                 *)
(***************************************************************************)
C4_ShortListGivesEmpty ==
    (pc \in {"ffp_done", "crashed"} /\ NumSegments < input_size + 1)
        => (pc = "ffp_done" /\ full_parse = EmptyResult /\ ~oob)

(***************************************************************************)
(* C5  When S[input_size] exists, find_full_parse returns the first item   *)
(* of S[input_size], in insertion order, that is complete, starts at 0 and *)
(* has the start symbol as left-hand side, with the segment's index; and   *)
(* the empty result when S[input_size] has no such item.                   *)
(***************************************************************************)
FullParseOffsets(n) ==
    { k \in 0..(Len(S(n)) - 1) : FullParseItem(S(n)[k + 1]) }

C5_FirstFullParse ==
    (pc = "ffp_done" /\ input_size < NumSegments) =>
        LET hits == FullParseOffsets(input_size)
        IN  /\ ~oob
            /\ IF hits = {}
               THEN full_parse = EmptyResult
               ELSE /\ full_parse.state_set = input_size
                    /\ full_parse.item \in hits
                    /\ \A k \in hits : full_parse.item <= k

\* Two candidates, and the first of them is not the first item of the set.
C5_Witness ==
    /\ pc = "ffp_done"
    /\ input_size < NumSegments
    /\ Cardinality(FullParseOffsets(input_size)) >= 2
    /\ full_parse.item > 0

(***************************************************************************)
(* C6  The span list parse returns has exactly k+1 segments, k being the   *)
(* number of tokens consumed (flushes that put at least one scanned item   *)
(* in the next state set).                                                 *)
(***************************************************************************)
TokensConsumed == Cardinality({ k \in 1..Len(scanned) : scanned[k] > 0 })

C6_SegmentCount ==
    pc = "parsed" => NumSegments = TokensConsumed + 1

(***************************************************************************)
(* C6, amended: parse always opens one more segment after the last         *)
(* non-empty state set.  The returned list has 1 segment when S[0] is      *)
(* empty and k+2 segments otherwise, the last one empty; after all n       *)
(* tokens were consumed it has n+2 segments.                               *)
(***************************************************************************)
C6_SegmentCountAmended ==
    pc = "parsed" =>
        /\ NumSegments = (IF S(0) = << >> THEN 1 ELSE TokensConsumed + 2)
        /\ S(NumSegments - 1) = << >>
        /\ \A j \in 0..(NumSegments - 2) : S(j) # << >>
        /\ TokensConsumed <= Len(input)
        /\ (S(0) # << >> /\ TokensConsumed = Len(input))
               => NumSegments = Len(input) + 2

\* A parse that consumed its whole, non-empty input.
C6_Witness ==
    /\ pc = "parsed"
    /\ Len(input) >= 2
    /\ TokensConsumed = Len(input)

(***************************************************************************)
(* C7  Full-parse uniqueness: for an unambiguous grammar and an input it   *)
(* accepts, exactly one item of S[|input|] in the output of parse is       *)
(* complete, starts at 0 and has the start symbol as left-hand side.       *)
(*                                                                         *)
(* Unambiguity is decided for the grammars without recursion: their        *)
(* language is finite, no sentence is longer than MaxYield(start_symbol),  *)
(* and the derivation trees of every such word are counted.                *)
(***************************************************************************)
DirectUses(X) ==
    UNION { { rules[r].components[k] : k \in 1..Len(rules[r].components) } :
              r \in { q \in 1..Len(rules) : rules[q].symbol = X } } \cap Nonterminals

RECURSIVE ReachableFrom(_)
ReachableFrom(Xs) ==
    LET after == Xs \cup UNION { DirectUses(X) : X \in Xs }
    IN  IF after = Xs THEN Xs ELSE ReachableFrom(after)

NonRecursive ==
    \A X \in Nonterminals : X \notin ReachableFrom(DirectUses(X))

Max(a, b) == IF a >= b THEN a ELSE b
Cap2(x) == IF x > 2 THEN 2 ELSE x

\* the longest word X yields (grammars without recursion only)
RECURSIVE MaxYield(_), MaxYieldSeq(_, _), MaxYieldRules(_, _)
MaxYield(sym) ==
    IF sym \in Terminals THEN 1 ELSE MaxYieldRules(sym, 1)
MaxYieldSeq(components, k) ==
    IF k > Len(components) THEN 0
    ELSE MaxYield(components[k]) + MaxYieldSeq(components, k + 1)
MaxYieldRules(sym, r) ==
    IF r > Len(rules) THEN 0
    ELSE Max(IF rules[r].symbol = sym THEN MaxYieldSeq(rules[r].components, 1) ELSE 0,
             MaxYieldRules(sym, r + 1))

\* the number, capped at 2, of derivation trees of w[i..j) from sym
RECURSIVE TreesOfSym(_, _, _, _), TreesOfSeq(_, _, _, _, _),
          TreesOfRules(_, _, _, _, _), TreesOfSplits(_, _, _, _, _, _)
TreesOfSym(w, sym, i, j) ==
    IF sym \in Terminals
    THEN IF j = i + 1 /\ matches_terminal(sym, w[j]) THEN 1 ELSE 0
    ELSE TreesOfRules(w, sym, 1, i, j)
TreesOfRules(w, sym, r, i, j) ==
    IF r > Len(rules) THEN 0
    ELSE Cap2((IF rules[r].symbol = sym
               THEN TreesOfSeq(w, rules[r].components, 1, i, j) ELSE 0)
              + TreesOfRules(w, sym, r + 1, i, j))
TreesOfSeq(w, components, k, i, j) ==
    IF k > Len(components) THEN (IF i = j THEN 1 ELSE 0)
    ELSE TreesOfSplits(w, components, k, i, i, j)
TreesOfSplits(w, components, k, i, m, j) ==
    IF m > j THEN 0
    ELSE Cap2(TreesOfSym(w, components[k], i, m) * TreesOfSeq(w, components, k + 1, m, j)
              + TreesOfSplits(w, components, k, i, m + 1, j))

WordsUpTo(len) == UNION { [1..n -> Tokens] : n \in 0..len }

Unambiguous ==
    /\ NonRecursive
    /\ \A w \in WordsUpTo(MaxYield(start_symbol)) :
           TreesOfSym(w, start_symbol, 0, Len(w)) <= 1

FullParseCount ==
    IF Len(input) < NumSegments THEN Cardinality(FullParseOffsets(Len(input))) ELSE 0

C7_UniqueFullParse ==
    ( /\ pc = "parsed"
      /\ <<start_symbol, 0, Len(input)>> \in Derivable
      /\ Unambiguous )
    => FullParseCount = 1

(***************************************************************************)
(* C8  Aycock-Horspool coverage: for every rule A -> alpha N beta with N   *)
(* deriving the empty string, if A -> . alpha N beta (i) is in S[i], alpha *)
(* derives input[i..m) and beta derives input[m..j), then the completed    *)
(* item A -> alpha N beta . (i) is in S[j] of the output of parse.         *)
(***************************************************************************)
InStateSet(item, j) == j < NumSegments /\ item \in ItemsOf(j)

C8_NullableCoverage ==
    pc = "parsed" =>
        LET D == Derivable
            n == Len(input)
        IN  \A r \in 1..Len(rules) :
                LET rhs == rules[r].components
                IN  \A p \in 1..Len(rhs) :
                        (rhs[p] \in Nonterminals /\ <<rhs[p], 0, 0>> \in D) =>
                            \A i \in 0..n : \A m \in i..n : \A j \in m..n :
                                ( /\ InStateSet(EarleyItem(r - 1, i, 0), i)
                                  /\ SeqDerives(D, SubSeq(rhs, 1, p - 1), 1, i, m)
                                  /\ SeqDerives(D, SubSeq(rhs, p + 1, Len(rhs)), 1, m, j) )
                                => InStateSet(EarleyItem(r - 1, i, Len(rhs)), j)

(***************************************************************************)
(* C9  Nullable fixpoint correctness: once the RuleSet is constructed,     *)
(* is_nullable(N) holds exactly for the symbols N that derive the empty    *)
(* string: the least set E with X in E when some rule X -> rhs has every   *)
(* symbol of rhs in E.  Terminals and symbols without rules are not in E.  *)
(***************************************************************************)
EpsilonStep(E) ==
    E \cup { rules[r].symbol : r \in { q \in 1..Len(rules) :
                 \A k \in 1..Len(rules[q].components) : rules[q].components[k] \in E } }

RECURSIVE EpsilonFix(_)
EpsilonFix(E) ==
    LET after == EpsilonStep(E)
    IN  IF after = E THEN E ELSE EpsilonFix(after)

C9_NullableFixpoint ==
    pc # "ctor" =>
        LET E == EpsilonFix({})
        IN  \A sym \in Symbols : is_nullable(sym) <=> sym \in E

\* A is nullable though it has no epsilon rule (the symbols it rests on have
\* their rules after A's, so A is marked in a later pass than they are), and
\* some symbol with rules is not nullable.
C9_Witness ==
    /\ pc = "seed"
    /\ is_nullable("A")
    /\ \A r \in 1..Len(rules) : rules[r].symbol = "A" => rules[r].components # << >>
    /\ \E r \in 1..Len(rules) : rules[r].symbol # "A" /\ ~is_nullable(rules[r].symbol)

(***************************************************************************)
(* C10  Scan correctness: the items the flush of staged scans places in    *)
(* S[j+1] are exactly the items (r, i, k+1) with (r, i, k) in S[j],        *)
(* rules[r].rhs[k] a terminal, j before the end of input and               *)
(* matches_terminal(rules[r].rhs[k], input[j]).                            *)
(***************************************************************************)
\* the items the flush put in segment j1 (j1 >= 1): its first scanned[j1] items
ScanPlaced(j1) == { S(j1)[k] : k \in 1..scanned[j1] }

ScanExpected(j) ==
    { [rule_idx |-> it.rule_idx, start_pos |-> it.start_pos, progress |-> it.progress + 1] :
        it \in { x \in ItemsOf(j) :
                   /\ x.progress < Len(rules[x.rule_idx + 1].components)
                   /\ rules[x.rule_idx + 1].components[x.progress + 1] \in Terminals
                   /\ j < Len(input)
                   /\ matches_terminal(rules[x.rule_idx + 1].components[x.progress + 1],
                                       input[j + 1]) } }

C10_ScanCorrect ==
    \A j \in 0..(Len(scanned) - 1) : ScanPlaced(j + 1) = ScanExpected(j)

\* A flush placed an item although another item of S[j] had a terminal after
\* the dot that the token did not match.
C10_Witness ==
    \E j \in 0..(Len(scanned) - 1) :
        /\ scanned[j + 1] >= 1
        /\ j >= 1
        /\ \E x \in ItemsOf(j) :
               /\ x.progress < Len(rules[x.rule_idx + 1].components)
               /\ rules[x.rule_idx + 1].components[x.progress + 1] \in Terminals
               /\ ~matches_terminal(rules[x.rule_idx + 1].components[x.progress + 1],
                                    input[j + 1])

(***************************************************************************)
(* C11  The recognizer does not diverge: parse ends without "BigArray is   *)
(* out of memory" whenever max_item_capacity is at least the number of     *)
(* distinct Earley items (rule_idx, progress, start_pos) the grammar and   *)
(* the input admit.                                                        *)
(***************************************************************************)
RECURSIVE DottedRules(_)
DottedRules(r) ==
    IF r > Len(rules) THEN 0
    ELSE Len(rules[r].components) + 1 + DottedRules(r + 1)

\* every dotted rule at every start position 0 .. |input|
PossibleItems == DottedRules(1) * (Len(input) + 1)

C11_NoDivergence ==
    pc = "oom" => max_item_capacity < PossibleItems

(***************************************************************************)
(* C12  max_item_capacity bounds the parse: state_sets never holds more    *)
(* than max_item_capacity items in all its segments together, so a parse   *)
(* that needs more ends in "BigArray is out of memory".                    *)
(***************************************************************************)
C12_CapacityBounds ==
    Len(items) <= max_item_capacity

(***************************************************************************)
(* C13  Append-only stability: no step of parse or find_full_parse changes *)
(* the value or the position of an item already stored in the backing      *)
(* buffer, and no step moves the bounds of a closed segment; so every      *)
(* closed segment S[k] reads the same at every later point.                *)
(***************************************************************************)
C13_AppendOnly ==
    [][ /\ Len(items') >= Len(items)
        /\ SubSeq(items', 1, Len(items)) = items
        /\ Len(start_points') >= Len(start_points)
        /\ \A i \in 1..(Len(start_points) - 1) : start_points'[i] = start_points[i]
      ]_vars

\* Two closed, non-empty segments and a third one holding items: S[0] was
\* closed before two flushes and the walks that followed them.
C13_Witness ==
    /\ pc = "parsed"
    /\ NumSegments >= 4
    /\ S(0) # << >> /\ S(1) # << >>
    /\ Len(S(2)) > scanned[2]

(***************************************************************************)
(* C14  Nullable-loop scenario (test_nullable): for the grammar            *)
(* A -> (empty), A -> B, B -> A with start symbol A, the empty input and   *)
(* ample capacity, S[0] of the output of parse holds exactly the five      *)
(* items A -> . (0), A -> . B (0), B -> . A (0), A -> B . (0),             *)
(* B -> A . (0), each once, and find_full_parse on it succeeds.            *)
(***************************************************************************)
NullableLoopRules ==
    << Rule("A", << >>), Rule("A", <<"B">>), Rule("B", <<"A">>) >>

NullableLoopScenario ==
    /\ rules = NullableLoopRules
    /\ start_symbol = "A"
    /\ input = << >>
    /\ max_item_capacity = AmpleCapacity

NullableLoopItems ==
    { EarleyItem(0, 0, 0), EarleyItem(1, 0, 0), EarleyItem(2, 0, 0),
      EarleyItem(1, 0, 1), EarleyItem(2, 0, 1) }

C14_NullableLoop ==
    NullableLoopScenario =>
        /\ pc # "oom"
        /\ pc \in {"parsed", "ffp_done"} =>
               /\ ItemsOf(0) = NullableLoopItems
               /\ Len(S(0)) = 5
        /\ SameInput => (~oob /\ full_parse.item # NullIter /\ full_parse.state_set = 0)

\* find_full_parse has answered for the scenario's parse
C14_Witness ==
    NullableLoopScenario /\ SameInput /\ Len(S(0)) = 5

(***************************************************************************)
(* C15  Arithmetic scenario: for the ten-rule grammar, start symbol Sum    *)
(* and input 1+(8*9), find_full_parse returns the completed item           *)
(* Sum -> Sum Plus Product . (0) in S[7], and the traversal of that item   *)
(* reports at its top level, in this order, a completed Product -> Factor  *)
(* item, the terminal Plus and a completed Sum -> Product item.            *)
(***************************************************************************)
\* find_full_parse was called with the input parse consumed, and
\* print_parse_tree may have run on its result
AfterFullParse ==
    pc \in {"ffp_done", "printed", "aborted", "crashed"} /\ input_size = Len(input)

ArithScenario ==
    rules = ArithRules /\ start_symbol = "Sum" /\ input = ArithInput /\ AfterFullParse

\* the subcomponents reported for the root item itself
TopLevel(events) ==
    SelectSeq(events, LAMBDA e : e.indent_level = 0 /\ e.kind # "alternative")

CompletedOf(e, rule_idx) ==
    /\ e.kind = "item"
    /\ e.item.rule_idx = rule_idx
    /\ e.item.progress = Len(rules[rule_idx + 1].components)

C15_Arithmetic ==
    ArithScenario =>
        /\ ~oob
        /\ full_parse.state_set = 7
        /\ full_parse.item # NullIter
        /\ S(7)[full_parse.item + 1] = EarleyItem(0, 0, 3)
        /\ pc \notin {"aborted", "crashed"}
        /\ pc = "printed" =>
               LET top == TopLevel(tree.events)
               IN  /\ Len(top) = 3
                   /\ CompletedOf(top[1], 5)
                   /\ top[2].kind = "terminal" /\ top[2].symbol = "Plus"
                   /\ CompletedOf(top[3], 2)

\* the example's tree has been printed
C15_Witness ==
    ArithScenario /\ pc = "printed" /\ tree.steps > 3

(***************************************************************************)
(* C16  BigArray append semantics: from a fresh BigArray, after n          *)
(* successful push_back / emplace_back calls size() is n, element i is the *)
(* i-th value appended for every i < n, and begin() .. end() yields the    *)
(* values in insertion order.                                              *)
(***************************************************************************)
C16_AppendSemantics ==
    pc \in {"ba_ready", "ba_oom"} =>
        LET n == Len(big_array.pushed)
        IN  /\ BigArray_size(big_array) = n
            /\ \A i \in 0..(n - 1) : BigArray_at(big_array, i) = big_array.pushed[i + 1]
            /\ BigArray_range(big_array) = big_array.pushed

\* the three appends of test_big_array: 5, 89, 70
C16_Witness ==
    /\ pc = "ba_ready"
    /\ big_array.pushed = <<5, 89, 70>>
    /\ BigArray_size(big_array) = 3

(***************************************************************************)
(* C17  BigArray construction reserves capacity * sizeof(T) bytes rounded  *)
(* up to the page size: byte_capacity() is a multiple of the page size, at *)
(* least capacity * sizeof(T) and less than that plus one page.            *)
(***************************************************************************)
C17_PageRounded ==
    pc \in {"ba_ready", "ba_oom"} =>
        LET bytes == big_array.capacity * big_array.element_size
        IN  /\ big_array.m_byte_capacity % PageSize = 0
            /\ big_array.m_byte_capacity >= bytes
            /\ big_array.m_byte_capacity < bytes + PageSize

\* print_parse_tree has run on the item find_full_parse returned for the
\* whole input.
Traversed ==
    /\ pc \in {"printed", "aborted", "crashed"}
    /\ ~oob
    /\ input_size = Len(input)

\* the sum of the right-hand-side lengths of the grammar's rules
RhsTotal == DottedRules(1) - Len(rules)

(***************************************************************************)
(* C18  Traversal termination: the recursive right-to-left traversal       *)
(* started from an item returned by find_full_parse terminates, visiting   *)
(* at most |input| + (sum of the right-hand-side lengths of the rules)     *)
(* subcomponents in total.                                                 *)
(***************************************************************************)
C18_TraversalTerminates ==
    Traversed =>
        /\ tree.outcome # "overflow"
        /\ tree.steps <= Len(input) + RhsTotal

(***************************************************************************)
(* C19  Closure under completion: when the walk of S[j] has finished, for  *)
(* every complete item c in S[j] and every item p in S[c.start_pos] whose  *)
(* next symbol is the left-hand side of c's rule, the item p with its      *)
(* progress incremented by one is a member of S[j].                        *)
(***************************************************************************)
WaitsFor(p, c) ==
    /\ ~Completed(p)
    /\ next_symbol(rules[p.rule_idx + 1], p) = Lhs(c)

C19_CompletionClosure ==
    pc = "parsed" =>
        \A j \in 0..(NumSegments - 1) :
            \A c \in ItemsOf(j) :
                Completed(c) =>
                    \A p \in ItemsOf(c.start_pos) :
                        WaitsFor(p, c) =>
                            EarleyItem(p.rule_idx, p.start_pos, p.progress + 1) \in ItemsOf(j)

(***************************************************************************)
(* C20  During the right-to-left traversal started from a find_full_parse  *)
(* result, every lookup for a nonterminal subcomponent finds a completed   *)
(* item with that left-hand side in the current segment: find_completed_   *)
(* item never returns the end of the segment, for every grammar and        *)
(* accepted input.                                                         *)
(***************************************************************************)
C20_LookupSucceeds ==
    Traversed => tree.outcome # "assert"

(***************************************************************************)
(* C21  During the right-to-left traversal started from a find_full_parse  *)
(* result the current segment index stays within [0, number of segments):  *)
(* advance_from_terminal is never applied when the current segment is      *)
(* S[0], and advance_from_nonterminal never moves to a segment that does   *)
(* not exist.                                                              *)
(***************************************************************************)
C21_SegmentInRange ==
    Traversed => tree.outcome # "underflow"

(***************************************************************************)
(* C22  The recognizer advances the input position exactly once per        *)
(* processed state set, never rewinds it, never reads a token at or beyond *)
(* the end of input, and never advances the input position once it equals *)
(* the end of input: the input position stays within [0, |input|].        *)
(***************************************************************************)
\* the walk is at an item whose scan branch evaluates *curr_token
ReadsToken ==
    /\ pc = "walk"
    /\ walk < Len(items)
    /\ ~is_completed(WalkItem, Len(WalkRule.components))
    /\ is_terminal(next_symbol(WalkRule, WalkItem))
    /\ curr_token # end_token

C22_SinglePass ==
    [][ /\ curr_token' \in {curr_token, curr_token + 1}
        /\ (curr_pos' # curr_pos /\ pc' = "loop") => curr_token' = curr_token + 1
        /\ ReadsToken => curr_token < Len(input)
        /\ curr_token' # curr_token => curr_token < Len(input)
        /\ curr_token' <= Len(input) ]_vars

(***************************************************************************)
(* C23  SpanList structural invariant: after any sequence of add_span,     *)
(* emplace_back and append calls, successful or failing, start_points is   *)
(* either empty or has at least two entries (one more than the number of   *)
(* segments), start_points[0] = 0, start_points is non-decreasing and its  *)
(* final entry equals the number of items in the backing buffer.           *)
(***************************************************************************)
C23_SpanListInvariant ==
    \/ start_points = << >>
    \/ /\ Len(start_points) >= 2
       /\ Len(start_points) = NumSegments + 1
       /\ start_points[1] = 0
       /\ \A k \in 1..(Len(start_points) - 1) : start_points[k] <= start_points[k + 1]
       /\ start_points[Len(start_points)] = Len(items)

(***************************************************************************)
(* C24  Live view of the open segment: while the recognizer walks S[j],    *)
(* every item appended to S[j] during the walk is itself visited later in  *)
(* the same walk: the walk starts at the first item of S[j], each step     *)
(* processes the item under the walk and moves to the next one, and        *)
(* S[j+1] is opened only when the walk has passed the last item stored,    *)
(* so every item of S[j] has been processed exactly once.                  *)
(***************************************************************************)
OpenFirst == start_points[Len(start_points) - 1]

C24_LiveView ==
    [][ /\ (pc = "loop" /\ pc' = "walk") => walk' = OpenFirst
        /\ (pc = "walk" /\ walk' # walk) =>
               /\ walk' = walk + 1
               /\ OpenFirst <= walk /\ walk < Len(items)
               /\ SubSeq(items', 1, Len(items)) = items
        /\ (pc = "walk" /\ Len(start_points') > Len(start_points)) =>
               walk = Len(items) ]_vars

\* S[1] was closed holding more items than the scan had put there
C24_Witness ==
    /\ pc = "loop"
    /\ curr_pos = 2
    /\ Len(S(1)) > scanned[1]

(***************************************************************************)
(* C25  While processing position curr_pos, predictions, nullable advances *)
(* and completions add items only to S[curr_pos]; scan results are added   *)
(* only to S[curr_pos+1] and only after S[curr_pos] has been closed; no    *)
(* step ever adds an item to a segment with index below curr_pos.          *)
(***************************************************************************)
\* the segments 0 .. n-1 are the same before and after the step
SameSegments(n) ==
    /\ SubSeq(start_points', 1, n + 1) = SubSeq(start_points, 1, n + 1)
    /\ SubSeq(items', 1, start_points[n + 1]) = SubSeq(items, 1, start_points[n + 1])

C25_SegmentDiscipline ==
    [][ /\ (pc = "walk" /\ walk' # walk) =>
               \* a completion, scan or prediction step at curr_pos
               /\ NumSegments = curr_pos + 1
               /\ Len(start_points') = Len(start_points)
               /\ SameSegments(curr_pos)
               /\ SubSeq(items', 1, Len(items)) = items
               /\ (pc' = "walk" => start_points'[curr_pos + 2] = Len(items'))
               /\ (next_state_set' # next_state_set => items' = items)
        /\ (pc = "walk" /\ walk' = walk /\ pc' # "oom") =>
               \* S[curr_pos] is closed and the staged scans become S[curr_pos+1]
               /\ Len(start_points') = curr_pos + 3
               /\ SameSegments(curr_pos + 1)
               /\ SubSeq(items', Len(items) + 1, Len(items')) = next_state_set
               /\ start_points'[curr_pos + 3] = Len(items')
        /\ (pc = "walk" /\ pc' = "oom") =>
               /\ SameSegments(curr_pos)
               /\ SubSeq(items', 1, Len(items)) = items ]_vars

\* at position 1, after the scan put items in S[1], the walk added more
C25_Witness ==
    /\ pc = "walk"
    /\ curr_pos = 1
    /\ scanned[1] > 0
    /\ Len(S(1)) > scanned[1]

(***************************************************************************)
(* C26  A failing bulk append leaves the container unchanged: when         *)
(* SpanList::append fails because the reservation cannot hold the staged   *)
(* items, neither the backing buffer nor the segment offsets change.       *)
(***************************************************************************)
AppendFails ==
    /\ pc = "walk"
    /\ walk >= Len(items)
    /\ pc' = "oom"

C26_FailedAppendUnchanged ==
    [][ AppendFails =>
            /\ items' = items
            /\ start_points' = add_span(SpanListOf(items, start_points)).start_points ]_vars

(***************************************************************************)
(* C27  Every virtual-memory reservation made by a BigArray is released    *)
(* exactly once by the time every array that ever owned it has been        *)
(* destroyed, under any sequence of construct, move-construct, move-assign *)
(* and destroy operations; a moved-from array owns nothing.                *)
(***************************************************************************)
C27_ReleasedOnce ==
    pc = "lifetime" =>
        /\ \A m \in 1..Len(mappings) :
               /\ mappings[m].unmaps <= 1
               /\ (\A a \in mappings[m].owners : arrays[a].state = "destroyed")
                      => mappings[m].unmaps = 1
        /\ \A a, b \in ArrayIds :
               (a # b /\ arrays[a].state = "alive" /\ arrays[b].state = "alive"
                      /\ arrays[a].m_data # nullptr)
                   => arrays[a].m_data # arrays[b].m_data

(***************************************************************************)
(* C28  Partial-input (prefix) property: for every grammar, start symbol,  *)
(* input u and extension uv, the state sets S[0..|u|] produced by parsing  *)
(* u are item-for-item and order-for-order equal to the state sets         *)
(* S[0..|u|] produced by parsing uv.                                       *)
(***************************************************************************)
Prefix(n) == SubSeq(input, 1, n)

C28_PrefixProperty ==
    pc = "parsed" =>
        \A n \in 0..Len(input) :
            LET of_u == ParseOf(Prefix(n))
            IN  ~of_u.thrown =>
                    \A j \in 0..n :
                        /\ j < Len(of_u.start_points) - 1 <=> j < NumSegments
                        /\ j < NumSegments =>
                               SpanAt(of_u.items, of_u.start_points, j) = S(j)

\* a two-token input was parsed to a non-empty S[2], and its one-token
\* prefix can be parsed too
C28_Witness ==
    /\ pc = "parsed"
    /\ Len(input) = 2
    /\ NumSegments > 2
    /\ S(2) # << >>
    /\ ~ParseOf(Prefix(1)).thrown
    /\ Len(ParseOf(Prefix(1)).items) < Len(items)

(***************************************************************************)
(* C29  Item well-formedness: every item stored in S[j] at any point of a  *)
(* parse has rule_idx < number of rules, progress <= the length of that    *)
(* rule's right-hand side and start_pos <= j; every item added by          *)
(* prediction has progress 0 and start_pos = j; every seed item of S[0]    *)
(* has progress 0, start_pos 0 and a rule of the start symbol.             *)
(***************************************************************************)
\* the segment the k-th stored item lies in
SegmentOfItem(k) ==
    CHOOSE j \in 0..(Len(start_points) - 2) :
        start_points[j + 1] < k /\ (k <= start_points[j + 2] \/ j = Len(start_points) - 2)

WellFormedItems ==
    \A k \in 1..Len(items) :
        /\ items[k].rule_idx >= 0 /\ items[k].rule_idx < Len(rules)
        /\ items[k].progress >= 0
        /\ items[k].progress <= Len(rules[items[k].rule_idx + 1].components)
        /\ items[k].start_pos >= 0 /\ items[k].start_pos <= SegmentOfItem(k)

PredictionStep ==
    /\ pc = "walk"
    /\ walk' = walk + 1
    /\ ~is_completed(WalkItem, Len(WalkRule.components))
    /\ ~(is_terminal(next_symbol(WalkRule, WalkItem)) /\ curr_token # Len(input))

\* the items the step stored
Added == { items'[k] : k \in (Len(items) + 1)..Len(items') }

C29_WellFormed ==
    [][ /\ WellFormedItems'
        /\ pc = "seed" =>
               \A item \in Added :
                   /\ item.progress = 0
                   /\ item.start_pos = 0
                   /\ rules[item.rule_idx + 1].symbol = start_symbol
        /\ PredictionStep =>
               \A item \in Added :
                   \/ /\ item.progress = 0
                      /\ item.start_pos = curr_pos
                      /\ rules[item.rule_idx + 1].symbol = next_symbol(WalkRule, WalkItem)
                   \/ \* the nullable advance of the item under the walk
                      /\ is_nullable(next_symbol(WalkRule, WalkItem))
                      /\ item = EarleyItem(WalkItem.rule_idx, WalkItem.start_pos,
                                           WalkItem.progress + 1) ]_vars

\* S[1] holds a predicted item and a completed item that began at 0
C29_Witness ==
    /\ pc = "parsed"
    /\ NumSegments > 1
    /\ \E p, c \in ItemsOf(1) :
           /\ p.progress = 0 /\ p.start_pos = 1
           /\ Completed(c) /\ c.start_pos = 0 /\ c.progress > 0

(***************************************************************************)
(* C30  Traversal consistency: for a grammar with exactly one derivation   *)
(* of the accepted input, when the right-to-left walk over all right-hand- *)
(* side symbols of a completed item (found in S[j] with start_pos i)       *)
(* finishes, the current segment index equals i: each child chosen by      *)
(* find_completed_item begins where the derivation of the parent requires. *)
(***************************************************************************)
OneDerivation ==
    /\ NonRecursive
    /\ Unambiguous
    /\ TreesOfSym(input, start_symbol, 0, Len(input)) = 1

C30_TraversalConsistent ==
    (Traversed /\ tree.outcome = "ok" /\ OneDerivation) =>
        \A k \in 1..Len(tree.walks) :
            tree.walks[k].ended_at = tree.walks[k].item.start_pos

Next ==
    \/ RuleSetCtor
    \/ ParseBegin
    \/ LoopEnter
    \/ LoopExit
    \/ Completion
    \/ Scan
    \/ Prediction
    \/ CloseStateSet
    \/ FindFullParse
    \/ PrintParseTree

Spec == Init /\ [][Next]_vars

\* The arithmetic example and its prefixes
SpecArith == ArithInit /\ [][Next]_vars

\* The parser on the grammar BoundaryRules
SpecBoundary == BoundaryInit /\ [][Next]_vars

\* BigArray objects constructed, moved and destroyed
SpecLifetime == LifetimeInit /\ [][NextLifetime]_vars

\* A BigArray on its own
SpecBigArray == BigArrayInit /\ [][NextBigArray]_vars
====
